---- MODULE Spec2Model ----
(***************************************************************************)
(* A model of find_mshr.py: the identifier extraction, the identifier-list *)
(* filter, the allow/deny filter, the duplicate resolution and the         *)
(* search / link / dry-link commands.                                      *)
(*                                                                         *)
(* Text (paths, command-line tokens, file contents, identifiers) is a      *)
(* sequence of one-character strings, so that the regular expression, the  *)
(* substring tests, str.lower, str.split, int() and str.format are         *)
(* computed character by character.  None is the empty sequence (falsy,    *)
(* and no identifier or path is empty).                                    *)
(***************************************************************************)
EXTENDS Integers, Sequences, FiniteSets, TLC

(***************************************************************************)
(* Bounds of the model.                                                    *)
(***************************************************************************)
MaxFiles == 2
MaxCands == 3
MaxTime == 2

(***************************************************************************)
(* Characters.                                                             *)
(***************************************************************************)
UpperSeq == <<"A","B","C","D","E","F","G","H","I","J","K","L","M",
              "N","O","P","Q","R","S","T","U","V","W","X","Y","Z">>
LowerSeq == <<"a","b","c","d","e","f","g","h","i","j","k","l","m",
              "n","o","p","q","r","s","t","u","v","w","x","y","z">>
DigitSeq == <<"0","1","2","3","4","5","6","7","8","9">>

Range(s) == {s[i] : i \in DOMAIN s}
UpperChars == Range(UpperSeq)
LowerChars == Range(LowerSeq)
DigitChars == Range(DigitSeq)
SpaceChars == {" ", "\n", "\t"}

\* [a-zA-Z_/\]
PrefixClass == UpperChars \cup LowerChars \cup {"_", "/", "\\"}
\* [MIXED]
MixedClass == {"M", "I", "X", "E", "D"}
\* [\w-]
WordHyphenClass == UpperChars \cup LowerChars \cup DigitChars \cup {"_", "-"}

None == <<>>

IndexOf(s, c) == CHOOSE i \in DOMAIN s : s[i] = c

\* str.lower, one character
LowerChar(c) == IF c \in UpperChars THEN LowerSeq[IndexOf(UpperSeq, c)] ELSE c
\* str.lower
Lower(t) == [i \in DOMAIN t |-> LowerChar(t[i])]

\* t[i:i+len(u)] == u
MatchesAt(t, i, u) ==
    /\ i >= 1
    /\ i + Len(u) - 1 <= Len(t)
    /\ \A k \in 1..Len(u) : t[i + k - 1] = u[k]

\* u in t (substring test)
Contains(t, u) == \E i \in 1..(Len(t) + 1) : MatchesAt(t, i, u)

\* t.endswith(u)
EndsWith(t, u) == Len(u) <= Len(t) /\ MatchesAt(t, Len(t) - Len(u) + 1, u)

\* t.startswith(u)
StartsWith(t, u) == MatchesAt(t, 1, u)

\* the number of consecutive characters of class cls from position i on
RECURSIVE RunLen(_, _, _)
RunLen(t, i, cls) ==
    IF i <= Len(t) /\ t[i] \in cls THEN 1 + RunLen(t, i + 1, cls) ELSE 0

Max(S) == CHOOSE x \in S : \A y \in S : y <= x
Min(S) == CHOOSE x \in S : \A y \in S : x <= y

(***************************************************************************)
(* int() of a digit string and the "{}" rendering of a natural number.     *)
(***************************************************************************)
DigitVal(c) == IndexOf(DigitSeq, c) - 1

RECURSIVE ParseInt(_)
ParseInt(s) ==
    IF Len(s) = 0 THEN 0
    ELSE 10 * ParseInt(SubSeq(s, 1, Len(s) - 1)) + DigitVal(s[Len(s)])

RECURSIVE FormatInt(_)
FormatInt(n) ==
    IF n < 10 THEN <<DigitSeq[n + 1]>>
    ELSE FormatInt(n \div 10) \o <<DigitSeq[(n % 10) + 1]>>

(***************************************************************************)
(* extract_mshr_id: re.search of the pattern, written here without its     *)
(* non-capturing brackets,                                                 *)
(*   [a-zA-Z_/\]* MSHR ([0-9]+) [MIXED]? [\w-]* _ [R]? ([0-9]+)            *)
(* The match is the one a backtracking matcher finds first: the leftmost   *)
(* start, and at it every quantifier as long as the rest allows, in the    *)
(* order the quantifiers appear.                                           *)
(***************************************************************************)
MSHR == <<"M", "S", "H", "R">>

\* _ [R]? ([0-9]+) at position l: the optional R is taken when present
TailR(t, l) == IF l + 1 <= Len(t) /\ t[l + 1] = "R" THEN 1 ELSE 0
TailOK(t, l) ==
    /\ l <= Len(t)
    /\ t[l] = "_"
    /\ \/ RunLen(t, l + 1 + TailR(t, l), DigitChars) >= 1
       \/ RunLen(t, l + 1, DigitChars) >= 1
TailSkip(t, l) ==
    IF RunLen(t, l + 1 + TailR(t, l), DigitChars) >= 1 THEN TailR(t, l) ELSE 0

\* [\w-]* from k: the lengths after which the tail matches
WordLens(t, k) == {w \in 0..RunLen(t, k, WordHyphenClass) : TailOK(t, k + w)}
\* [MIXED]? at j
MixedLens(t, j) ==
    {m \in 0..(IF j <= Len(t) /\ t[j] \in MixedClass THEN 1 ELSE 0) :
        WordLens(t, j + m) # {}}
\* ([0-9]+) from i
AccessionLens(t, i) ==
    {d \in 1..RunLen(t, i, DigitChars) : MixedLens(t, i + d) # {}}
\* [a-zA-Z_/\]* MSHR from s
PrefixLens(t, s) ==
    {p \in 0..RunLen(t, s, PrefixClass) :
        MatchesAt(t, s + p, MSHR) /\ AccessionLens(t, s + p + 4) # {}}
MatchStarts(t) == {s \in 1..(Len(t) + 1) : PrefixLens(t, s) # {}}

\* the two groups of the match whose accession starts at i and is d long, whose
\* suffix starts at g
MatchGroups(t, i, d, g) ==
    [g1 |-> SubSeq(t, i, i + d - 1),
     g2 |-> SubSeq(t, g, g + RunLen(t, g, DigitChars) - 1)]
MatchTail(t, i, d, l) == MatchGroups(t, i, d, l + 1 + TailSkip(t, l))
MatchWord(t, i, d, k) == MatchTail(t, i, d, k + Max(WordLens(t, k)))
MatchMixed(t, i, d) == MatchWord(t, i, d, i + d + Max(MixedLens(t, i + d)))
MatchAccession(t, i) == MatchMixed(t, i, Max(AccessionLens(t, i)))
MatchFrom(t, s) == MatchAccession(t, s + Max(PrefixLens(t, s)) + 4)

\* the match object: the two groups' text, or None
RegexSearch(t) ==
    IF MatchStarts(t) = {} THEN None ELSE MatchFrom(t, Min(MatchStarts(t)))

\* "{}-{}".format(int(match[1]), int(match[2]))
FormatId_NoInt(g1, g2) == g1 \o <<"-">> \o g2
FormatId(g1, g2) == FormatInt(ParseInt(g1)) \o <<"-">> \o FormatInt(ParseInt(g2))

IdOfMatch(match) == IF match # None THEN FormatId(match.g1, match.g2) ELSE None

ExtractMshrId(path) == IdOfMatch(RegexSearch(path))

(***************************************************************************)
(* Candidates and the file system.  A candidate is a path found by the     *)
(* traversal; ctime is what stat().st_ctime reads for it.                  *)
(***************************************************************************)
Slash == <<"/">>
Dot == <<".">>
Star == <<"*">>
Cwd == <<"/", "w">>

Cand(p, c) == [path |-> p, ctime |-> c]

\* Path.name: the text after the last slash
RECURSIVE LastSlash(_, _)
LastSlash(t, i) == IF i = 0 \/ t[i] = "/" THEN i ELSE LastSlash(t, i - 1)
Name(t) == SubSeq(t, LastSlash(t, Len(t)) + 1, Len(t))

\* Path.absolute
Absolute(t) == IF StartsWith(t, Slash) THEN t ELSE Cwd \o Slash \o t

\* Path(a) / b, for a relative b; Path(".") / b is b
JoinPath(a, b) == IF a = Dot THEN b ELSE a \o Slash \o b

\* Path(root).rglob(pattern) over the tree, in the tree's (traversal) order; the
\* patterns are "*" and "*<suffix>", matched against the entry's name
UnderRoot(p, root) == root = Dot \/ StartsWith(p, root \o Slash)
GlobMatch(name, pattern) ==
    /\ StartsWith(pattern, Star)
    /\ EndsWith(name, SubSeq(pattern, 2, Len(pattern)))
Rglob(tr, root, pattern) ==
    SelectSeq(tr, LAMBDA e : UnderRoot(e.path, root) /\ GlobMatch(Name(e.path), pattern))

(***************************************************************************)
(* load_from_file                                                          *)
(***************************************************************************)
\* str.split(): the whitespace-separated tokens
RECURSIVE SplitWs(_, _, _)
SplitWs(t, i, cur) ==
    IF i > Len(t) THEN (IF cur = <<>> THEN <<>> ELSE <<cur>>)
    ELSE IF t[i] \in SpaceChars
         THEN (IF cur = <<>> THEN <<>> ELSE <<cur>>) \o SplitWs(t, i + 1, <<>>)
         ELSE SplitWs(t, i + 1, Append(cur, t[i]))
Split(t) == SplitWs(t, 1, <<>>)

\* int(x) raises ValueError unless x is a number; the contents modelled hold
\* digits, letters and white space only
IsIntText(tok) == Len(tok) > 0 /\ \A k \in DOMAIN tok : tok[k] \in DigitChars

FileExists(fs, file) == file \in DOMAIN fs

\* the outcome of load_from_file: the list, or the exit, or int()'s ValueError
ParseAll(toks) ==
    IF \E k \in DOMAIN toks : ~IsIntText(toks[k])
    THEN [status |-> "ValueError", ids |-> <<>>]
    ELSE [status |-> "ok", ids |-> [k \in DOMAIN toks |-> ParseInt(toks[k])]]

LoadFromFile(fs, file) ==
    IF ~FileExists(fs, file) THEN [status |-> "SystemExit", ids |-> <<>>]
    ELSE ParseAll(Split(fs[file]))

(***************************************************************************)
(* filter_for_mshr_id                                                      *)
(***************************************************************************)
\* mshr_id_n.split("-")[0]
RECURSIVE TakeUntil(_, _, _)
TakeUntil(t, i, sep) ==
    IF i > Len(t) \/ t[i] = sep THEN <<>> ELSE <<t[i]>> \o TakeUntil(t, i + 1, sep)
SplitFirst(t, sep) == TakeUntil(t, 1, sep)

IdInList_KeepNone(mshr_id_n, id_list) ==
    \/ mshr_id_n = None
    \/ ParseInt(SplitFirst(mshr_id_n, "-")) \in Range(id_list)
IdInList(mshr_id_n, id_list) ==
    /\ mshr_id_n # None
    /\ ParseInt(SplitFirst(mshr_id_n, "-")) \in Range(id_list)

KeepForIdList(e, id_list) == IdInList(ExtractMshrId(e.path), id_list)

FilterForMshrId(results, id_list) ==
    SelectSeq(results, LAMBDA e : KeepForIdList(e, id_list))

(***************************************************************************)
(* solve_duplicates                                                        *)
(***************************************************************************)
\* file_map, a dict in insertion order: a sequence of [key, files]
MapAddKey(map, e, k) ==
    IF \E i \in DOMAIN map : map[i].key = k
    THEN [map EXCEPT ![CHOOSE j \in DOMAIN map : map[j].key = k].files = Append(@, e)]
    ELSE Append(map, [key |-> k, files |-> <<e>>])

MapAdd(map, e) == MapAddKey(map, e, ExtractMshrId(e.path))

RECURSIVE BuildFileMap(_, _)
BuildFileMap(file_paths, n) ==
    IF n = 0 THEN <<>> ELSE MapAdd(BuildFileMap(file_paths, n - 1), file_paths[n])

\* the comparison of the "newest" loop
IsNewer_OrEqual(a, b) == a.ctime >= b.ctime
IsNewer(a, b) == a.ctime > b.ctime

PickNewer(f, newest) == IF IsNewer(f, newest) THEN f ELSE newest

\* newest after the first n members of the group were looked at
RECURSIVE NewestOf(_, _)
NewestOf(files, n) ==
    IF n = 0 THEN files[1]
    ELSE PickNewer(files[n], NewestOf(files, n - 1))

GroupResult(files, resolution_policy) ==
    IF Len(files) > 1
    THEN (IF resolution_policy = "newest" THEN <<NewestOf(files, Len(files))>> ELSE <<>>)
    ELSE <<files[1]>>

RECURSIVE CollectGroups(_, _, _)
CollectGroups(map, n, resolution_policy) ==
    IF n = 0 THEN <<>>
    ELSE CollectGroups(map, n - 1, resolution_policy)
            \o GroupResult(map[n].files, resolution_policy)

CollectAll(file_map, resolution_policy) ==
    CollectGroups(file_map, Len(file_map), resolution_policy)

SolveDuplicates(file_paths, resolution_policy) ==
    CollectAll(BuildFileMap(file_paths, Len(file_paths)), resolution_policy)

\* whether solve_duplicates calls stat: only for a group of several members
HasGroup(file_map) == \E i \in DOMAIN file_map : Len(file_map[i].files) > 1
SolveStats(file_paths) == HasGroup(BuildFileMap(file_paths, Len(file_paths)))

(***************************************************************************)
(* do_search: the allow/deny filter of its last three statements           *)
(***************************************************************************)
\* [x for x in raw_results for a in terms if a in str(x.as_posix()).lower()]
RECURSIVE TermHits(_, _, _)
TermHits(e, terms, n) ==
    IF n = 0 THEN <<>>
    ELSE TermHits(e, terms, n - 1)
            \o (IF Contains(Lower(e.path), terms[n]) THEN <<e>> ELSE <<>>)

RECURSIVE Hits(_, _, _)
Hits(raw_results, terms, n) ==
    IF n = 0 THEN <<>>
    ELSE Hits(raw_results, terms, n - 1) \o TermHits(raw_results[n], terms, Len(terms))

\* a path is "in denied" when it equals the path of a denied entry
InList(e, list) == \E k \in DOMAIN list : list[k].path = e.path

NotDenied_AllowWins(allowed, denied) == allowed
NotDenied(allowed, denied) == SelectSeq(allowed, LAMBDA a : ~InList(a, denied))

AllowDeny(raw_results, allow_list, deny_list) ==
    NotDenied(Hits(raw_results, allow_list, Len(raw_results)),
              Hits(raw_results, deny_list, Len(raw_results)))

\* do_search as a whole: [status, results]; file = None when not supplied
SearchLoaded(raw_results, loaded, allow_list, deny_list) ==
    IF loaded.status # "ok"
    THEN [status |-> loaded.status, results |-> <<>>]
    ELSE [status |-> "ok",
          results |-> AllowDeny(FilterForMshrId(raw_results, loaded.ids),
                                allow_list, deny_list)]

SearchIn(raw_results, fs, file, allow_list, deny_list) ==
    IF file # None
    THEN SearchLoaded(raw_results, LoadFromFile(fs, file), allow_list, deny_list)
    ELSE [status |-> "ok", results |-> AllowDeny(raw_results, allow_list, deny_list)]

DoSearch(tr, fs, file, root, pattern, allow_list, deny_list) ==
    SearchIn(Rglob(tr, root, pattern), fs, file, allow_list, deny_list)

(***************************************************************************)
(* The texts of the model: paths of the scanned tree, command-line tokens, *)
(* contents of the identifier-list file, filter terms.                     *)
(***************************************************************************)
\* data/MSHR5_1.fq
P_MSHR5_1 == <<"d","a","t","a","/","M","S","H","R","5","_","1",".","f","q">>
\* data/b/MSHR005_R01.fq
P_MSHR005_R01 == <<"d","a","t","a","/","b","/","M","S","H","R","0","0","5","_","R","0","1",".","f","q">>
\* data/MSHR8_1/r.fq
P_MSHR8_r == <<"d","a","t","a","/","M","S","H","R","8","_","1","/","r",".","f","q">>
\* data/MSHR9_2/r.fq
P_MSHR9_r == <<"d","a","t","a","/","M","S","H","R","9","_","2","/","r",".","f","q">>
\* data/mshr_notes.txt
P_notes == <<"d","a","t","a","/","m","s","h","r","_","n","o","t","e","s",".","t","x","t">>
\* data/MSHR3MIXED_1.fq
P_MIXED == <<"d","a","t","a","/","M","S","H","R","3","M","I","X","E","D","_","1",".","f","q">>
\* MSHR123_4.fq
P_MSHR123_4 == <<"M","S","H","R","1","2","3","_","4",".","f","q">>
\* data/readme.txt
P_readme == <<"d","a","t","a","/","r","e","a","d","m","e",".","t","x","t">>
\* x/MSHR007MIXED-extra_R04.gz
P_MSHR007 == <<"x","/","M","S","H","R","0","0","7","M","I","X","E","D","-","e","x","t","r","a","_","R","0","4",".","g","z">>
\* no_identifier_here.txt
P_no_identifier == <<"n","o","_","i","d","e","n","t","i","f","i","e","r","_","h","e","r","e",".","t","x","t">>
\* x/mshr.log
P_mshr_log == <<"x","/","m","s","h","r",".","l","o","g">>
\* MSHR12_3_R4.fq
P_MSHR12_3_R4 == <<"M","S","H","R","1","2","_","3","_","R","4",".","f","q">>
\* MSHR_1
P_MSHR_1 == <<"M","S","H","R","_","1">>
\* MSHR9_R.fq
P_MSHR9_R == <<"M","S","H","R","9","_","R",".","f","q">>
\* x/MSHRMSHR8_2
P_MSHRMSHR8_2 == <<"x","/","M","S","H","R","M","S","H","R","8","_","2">>
\* MSHR1_R/MSHR2_3
P_MSHR1_R_MSHR2_3 == <<"M","S","H","R","1","_","R","/","M","S","H","R","2","_","3">>
\* MSHR0_00
P_MSHR0_00 == <<"M","S","H","R","0","_","0","0">>
\* MSHR1_RR2
P_MSHR1_RR2 == <<"M","S","H","R","1","_","R","R","2">>
\* search
TokSearch == <<"s","e","a","r","c","h">>
\* link
TokLink == <<"l","i","n","k">>
\* dry-link
TokDryLink == <<"d","r","y","-","l","i","n","k">>
\* run
TokRun == <<"r","u","n">>
\* find_mshr.py
Prog == <<"f","i","n","d","_","m","s","h","r",".","p","y">>
\* -r
OptR == <<"-","r">>
\* --root
OptRoot == <<"-","-","r","o","o","t">>
\* -p
OptP == <<"-","p">>
\* --pattern
OptPattern == <<"-","-","p","a","t","t","e","r","n">>
\* -t
OptT == <<"-","t">>
\* --target
OptTarget == <<"-","-","t","a","r","g","e","t">>
\* -f
OptF == <<"-","f">>
\* --file
OptFile == <<"-","-","f","i","l","e">>
\* data
DataDir == <<"d","a","t","a">>
\* out
OutDir == <<"o","u","t">>
\* *.fq
PatFq == <<"*",".","f","q">>
\* new
NewDir == <<"n","e","w">>
\* ids.txt
IdsTxt == <<"i","d","s",".","t","x","t">>
\* gone.txt
GoneTxt == <<"g","o","n","e",".","t","x","t">>
\* mshr
TermMshr == <<"m","s","h","r">>
\* mixed
TermMixed == <<"m","i","x","e","d">>
\* fq
TermFq == <<"f","q">>
\* notes
TermNotes == <<"n","o","t","e","s">>
\*  -> 
Arrow == <<" ","-",">"," ">>
\* "5 123\n8", "123 124 125", "9 x1"
Ids_5_123_8 == <<"5"," ","1","2","3","\n","8">>
Ids_123_124_125 == <<"1","2","3"," ","1","2","4"," ","1","2","5">>
Ids_9_x1 == <<"9"," ","x","1">>

(***************************************************************************)
(* The inputs: the scanned tree, the identifier-list file, the command     *)
(* line.                                                                   *)
(***************************************************************************)
\* the entries a tree is made of, in traversal order
TreePaths == <<P_MSHR5_1, P_MSHR005_R01, P_MSHR8_r, P_MSHR9_r,
               P_notes, P_MIXED, P_MSHR123_4, P_readme>>

RECURSIVE Ascending(_)
Ascending(S) == IF S = {} THEN <<>> ELSE <<Min(S)>> \o Ascending(S \ {Min(S)})

\* the selections of at most n entries, in traversal order
Selections(n) ==
    { Ascending(S) : S \in { T \in SUBSET DOMAIN TreePaths : Cardinality(T) <= n } }

\* the trees a command runs on: at most MaxFiles entries, created in traversal order
Trees == { [k \in DOMAIN ix |-> Cand(TreePaths[ix[k]], k)] : ix \in Selections(MaxFiles) }

\* the files beside the tree: ids.txt with one of the contents; gone.txt never exists
FileSystems == { (IdsTxt :> c) : c \in {Ids_5_123_8, Ids_9_x1} }

\* the directories a link can be made in: the working directory and out (new is
\* no directory)
TargetDirExists(t) == t \in {Dot, OutDir}

Commands == {TokSearch, TokLink, TokDryLink, TokRun}
RootArgs == {<<>>, <<OptR, DataDir>>}
PatternArgs == {<<>>, <<OptPattern, PatFq>>}
TargetArgs == {<<>>, <<OptT, OutDir>>, <<OptTarget, Dot>>, <<OptT, NewDir>>}
FileArgs == {<<>>, <<OptF, IdsTxt>>, <<OptFile, GoneTxt>>}
\* an option left without its value
DanglingArgs == {<<OptP>>, <<OptRoot, DataDir, OptF>>, <<OutDir>>}

\* sys.argv: no subcommand; a subcommand with each option given or not; a
\* subcommand with an option left without its value, or a value without its option
Argvs ==
    {<<Prog>>} \cup
    { <<Prog, c>> \o r \o p \o t \o f :
        c \in Commands, r \in RootArgs, p \in PatternArgs, t \in TargetArgs,
        f \in FileArgs } \cup
    { <<Prog, c>> \o d : c \in Commands, d \in DanglingArgs }

(***************************************************************************)
(* The state.                                                              *)
(***************************************************************************)
VARIABLES
    argv,       \* sys.argv
    tree,       \* the entries below the working directory, in traversal order
    files,      \* the identifier-list files that exist, with their contents
    links,      \* the symbolic links created: [dest, src]
    fsops,      \* the file-system operations performed, in order
    stdout,     \* what was printed, in order
    pc,         \* where the program is
    exc,        \* the exception that ended the program ("none" while running)
    payload,    \* the argument of SystemExit
    root, pattern, target, file, dry_run,   \* the arguments of search / link
    caller,     \* who called do_search
    file_paths, \* raw_results / file_paths
    idx,        \* the position of link's loop
    call, ret   \* a direct call of a function and its result

cliVars == <<argv, links, fsops, stdout, pc, exc, payload, root, pattern, target,
             file, dry_run, caller, file_paths, idx>>
vars == <<argv, tree, files, links, fsops, stdout, pc, exc, payload, root, pattern,
          target, file, dry_run, caller, file_paths, idx, call, ret>>

\* an argument that is None, a str or a Path
NoneVal == [kind |-> "None", text |-> <<>>]
StrVal(t) == [kind |-> "str", text |-> t]
PathVal(t) == [kind |-> "Path", text |-> t]

NoCall == [fn |-> "none"]
NoRet == [status |-> "none"]

\* exit(message): print the message, raise SystemExit(__doc__)
Exit(message) ==
    /\ stdout' = Append(stdout, [kind |-> "message", text |-> message])
    /\ exc' = "SystemExit"
    /\ payload' = "usage"
    /\ pc' = "raised"

\* an exception nothing handles: main's handler re-raises it
Raise(e) ==
    /\ exc' = e
    /\ payload' = "none"
    /\ pc' = "raised"

Init ==
    /\ argv \in Argvs
    /\ tree \in Trees
    /\ files \in FileSystems
    /\ links = {}
    /\ fsops = <<>>
    /\ stdout = <<>>
    /\ pc = "main"
    /\ exc = "none"
    /\ payload = "none"
    /\ root = NoneVal /\ pattern = NoneVal /\ target = NoneVal /\ file = NoneVal
    /\ dry_run = FALSE
    /\ caller = "none"
    /\ file_paths = <<>>
    /\ idx = 0
    /\ call = NoCall
    /\ ret = NoRet

(***************************************************************************)
(* main                                                                    *)
(***************************************************************************)
\* opt.startswith("-")
IsOpt(tok) == StartsWith(tok, <<"-">>)
Opts(rest) == SelectSeq(rest, IsOpt)
Args(rest) == SelectSeq(rest, LAMBDA tok : ~IsOpt(tok))

\* the value the option loop leaves: args[idx] of the last opt among names
OptValue(opts, args, names) ==
    LET hits == {k \in DOMAIN opts : opts[k] \in names}
    IN  IF hits = {} THEN None ELSE args[Max(hits)]

AsPath(v) == IF v = None THEN NoneVal ELSE PathVal(v)
AsStr(v) == IF v = None THEN NoneVal ELSE StrVal(v)

\* the file option's value: search keeps the str, link makes a Path
FileArg(cmd, v) == IF cmd = TokSearch THEN AsStr(v) ELSE AsPath(v)

Main ==
    /\ pc = "main"
    /\ UNCHANGED <<argv, tree, files, links, fsops, file_paths, idx, caller, call, ret>>
    /\ IF Len(argv) < 2
       THEN \* sys.argv[1] raises IndexError
            /\ Raise("IndexError")
            /\ UNCHANGED <<stdout, root, pattern, target, file, dry_run>>
       ELSE LET cmd == argv[2]
                rest == SubSeq(argv, 3, Len(argv))
                opts == Opts(rest)
                args == Args(rest)
            IN  IF cmd \in {TokSearch, TokLink, TokDryLink}
                THEN IF Len(opts) # Len(args)
                     THEN /\ Exit("All arguments require parameters!")
                          /\ UNCHANGED <<root, pattern, target, file, dry_run>>
                     ELSE /\ root' = AsPath(OptValue(opts, args, {OptR, OptRoot}))
                          /\ pattern' = AsStr(OptValue(opts, args, {OptP, OptPattern}))
                          /\ target' = IF cmd = TokSearch THEN NoneVal
                                       ELSE AsPath(OptValue(opts, args, {OptT, OptTarget}))
                          /\ file' = FileArg(cmd, OptValue(opts, args, {OptF, OptFile}))
                          /\ dry_run' = (cmd = TokDryLink)
                          /\ pc' = IF cmd = TokSearch THEN "search" ELSE "link"
                          /\ UNCHANGED <<stdout, exc, payload>>
                ELSE /\ Exit("Must call a sub command! (search, link, dry-link)")
                     /\ UNCHANGED <<root, pattern, target, file, dry_run>>

(***************************************************************************)
(* search and link, up to their call of do_search                          *)
(***************************************************************************)
\* v or default
OrDefault(v, default) == IF v = NoneVal THEN StrVal(default) ELSE v

Search ==
    /\ pc = "search"
    /\ root' = OrDefault(root, Dot)
    /\ pattern' = OrDefault(pattern, Star)
    /\ caller' = "search"
    /\ pc' = "do_search"
    /\ UNCHANGED <<argv, tree, files, links, fsops, stdout, exc, payload, target,
                   file, dry_run, file_paths, idx, call, ret>>

\* link's check of its arguments
LinkArgsMissing_AndRoot == file = NoneVal /\ target = NoneVal /\ root = NoneVal
LinkArgsMissing == file = NoneVal /\ target = NoneVal

Link ==
    /\ pc = "link"
    /\ UNCHANGED <<argv, tree, files, links, fsops, file, dry_run, file_paths, idx,
                   call, ret>>
    /\ IF LinkArgsMissing
       THEN /\ Exit("Must specify either --file or --root and --pattern arguments!")
            /\ UNCHANGED <<root, pattern, target, caller>>
       ELSE /\ root' = OrDefault(root, Dot)
            /\ pattern' = OrDefault(pattern, Star)
            /\ target' = OrDefault(target, Dot)
            /\ caller' = "link"
            /\ pc' = "do_search"
            /\ UNCHANGED <<stdout, exc, payload>>

(***************************************************************************)
(* do_search, statement by statement                                       *)
(***************************************************************************)
DefaultAllow == <<TermMshr>>
DefaultDeny == <<TermMixed>>

\* raw_results = [x for x in Path(root).rglob(pattern)]
DoSearchRglob ==
    /\ pc = "do_search"
    /\ file_paths' = Rglob(tree, root.text, pattern.text)
    /\ fsops' = Append(fsops, "rglob")
    /\ pc' = IF file # NoneVal THEN "do_search_file" ELSE "do_search_filter"
    /\ UNCHANGED <<argv, tree, files, links, stdout, exc, payload, root, pattern,
                   target, file, dry_run, caller, idx, call, ret>>

\* if file: id_list = load_from_file(Path(file)); raw_results = filter_for_mshr_id(...)
DoSearchFile ==
    /\ pc = "do_search_file"
    /\ UNCHANGED <<argv, tree, files, links, root, pattern, target, file, dry_run,
                   caller, idx, call, ret>>
    /\ LET loaded == LoadFromFile(files, file.text)
       IN  CASE loaded.status = "SystemExit" ->
                  /\ Exit(<<"file doesn't exist!", file.text>>)
                  /\ fsops' = Append(fsops, "exists")
                  /\ UNCHANGED file_paths
             [] loaded.status = "ValueError" ->
                  /\ Raise("ValueError")
                  /\ fsops' = fsops \o <<"exists", "read_text">>
                  /\ UNCHANGED <<stdout, file_paths>>
             [] OTHER ->
                  /\ file_paths' = FilterForMshrId(file_paths, loaded.ids)
                  /\ fsops' = fsops \o <<"exists", "read_text">>
                  /\ pc' = "do_search_filter"
                  /\ UNCHANGED <<stdout, exc, payload>>

\* allowed, denied, return [a for a in allowed if a not in denied]
DoSearchFilter ==
    /\ pc = "do_search_filter"
    /\ file_paths' = AllowDeny(file_paths, DefaultAllow, DefaultDeny)
    /\ pc' = IF caller = "search" THEN "print" ELSE "solve"
    /\ UNCHANGED <<argv, tree, files, links, fsops, stdout, exc, payload, root,
                   pattern, target, file, dry_run, caller, idx, call, ret>>

\* print_search_output(results): one print of the joined paths
PrintSearchOutput ==
    /\ pc = "print"
    /\ stdout' = Append(stdout, [kind |-> "paths",
                                 text |-> [k \in DOMAIN file_paths |-> file_paths[k].path]])
    /\ pc' = "done"
    /\ UNCHANGED <<argv, tree, files, links, fsops, exc, payload, root, pattern,
                   target, file, dry_run, caller, file_paths, idx, call, ret>>

(***************************************************************************)
(* link, after do_search                                                   *)
(***************************************************************************)
\* file_paths = solve_duplicates(file_paths)
LinkSolveDuplicates ==
    /\ pc = "solve"
    /\ file_paths' = SolveDuplicates(file_paths, "newest")
    /\ fsops' = IF SolveStats(file_paths) THEN Append(fsops, "stat") ELSE fsops
    /\ idx' = 1
    /\ pc' = "loop"
    /\ UNCHANGED <<argv, tree, files, links, stdout, exc, payload, root, pattern,
                   target, file, dry_run, caller, call, ret>>

\* whether something is already at the absolute path dest
DestExists(ls, tr, dest) ==
    \/ \E l \in ls : l.dest = dest
    \/ \E k \in DOMAIN tr : Absolute(tr[k].path) = dest

\* Path(target / source.name)
ThisTarget(tgt, source) == JoinPath(tgt.text, Name(source))

\* this_target.absolute().symlink_to(source.absolute()): the links after it, or the
\* error of an occupied destination or of a missing directory
SymlinkTo(ls, tr, tgt, source) ==
    IF DestExists(ls, tr, Absolute(ThisTarget(tgt, source)))
    THEN [status |-> "FileExistsError", links |-> ls]
    ELSE IF ~TargetDirExists(tgt.text)
    THEN [status |-> "FileNotFoundError", links |-> ls]
    ELSE [status |-> "ok",
          links |-> ls \cup {[dest |-> Absolute(ThisTarget(tgt, source)),
                              src |-> Absolute(source)]}]

\* "{} -> {}".format(this_target.absolute(), source.absolute())
DryLine_Relative(tgt, source) == ThisTarget(tgt, source) \o Arrow \o source
DryLine(tgt, source) == Absolute(ThisTarget(tgt, source)) \o Arrow \o Absolute(source)

\* target / source.name raises TypeError when target is the str "."
DivRaises(tgt) == tgt.kind = "str"

\* one round of "for source in file_paths", or the loop's end
LinkStep ==
    /\ pc = "loop"
    /\ UNCHANGED <<argv, tree, files, root, pattern, target, file, dry_run, caller,
                   file_paths, call, ret>>
    /\ IF idx > Len(file_paths)
       THEN /\ pc' = "done"
            /\ UNCHANGED <<links, fsops, stdout, exc, payload, idx>>
       ELSE IF DivRaises(target)
       THEN /\ Raise("TypeError")
            /\ UNCHANGED <<links, fsops, stdout, idx>>
       ELSE IF dry_run
       THEN /\ stdout' = Append(stdout, [kind |-> "line",
                                         text |-> DryLine(target, file_paths[idx].path)])
            /\ idx' = idx + 1
            /\ UNCHANGED <<links, fsops, exc, payload, pc>>
       ELSE /\ fsops' = Append(fsops, "symlink")
            /\ links' = SymlinkTo(links, tree, target, file_paths[idx].path).links
            /\ IF SymlinkTo(links, tree, target, file_paths[idx].path).status = "ok"
               THEN /\ idx' = idx + 1
                    /\ UNCHANGED <<stdout, exc, payload, pc>>
               ELSE /\ Raise(SymlinkTo(links, tree, target, file_paths[idx].path).status)
                    /\ UNCHANGED <<stdout, idx>>

\* link's loop in real mode as a whole, from the links ls on: the links it leaves
\* and how it ends
RECURSIVE LinkAll(_, _, _, _, _)
LinkAll(ls, tr, tgt, srcs, k) ==
    IF k > Len(srcs) THEN [status |-> "ok", links |-> ls]
    ELSE IF DivRaises(tgt) THEN [status |-> "TypeError", links |-> ls]
    ELSE IF SymlinkTo(ls, tr, tgt, srcs[k].path).status # "ok"
    THEN SymlinkTo(ls, tr, tgt, srcs[k].path)
    ELSE LinkAll(SymlinkTo(ls, tr, tgt, srcs[k].path).links, tr, tgt, srcs, k + 1)

(***************************************************************************)
(* Direct calls of extract_mshr_id, solve_duplicates and do_search: the    *)
(* arguments are drawn at the start, the call computes the result.         *)
(***************************************************************************)
ExtractPaths ==
    {P_MSHR5_1, P_MSHR005_R01, P_MSHR8_r, P_MSHR9_r, P_notes, P_MIXED, P_MSHR123_4,
     P_readme, P_MSHR007, P_no_identifier, P_mshr_log, P_MSHR12_3_R4, P_MSHR_1,
     P_MSHR9_R, P_MSHRMSHR8_2, P_MSHR1_R_MSHR2_3, P_MSHR0_00, P_MSHR1_RR2}

\* two paths of one identifier, one of another, one of none
SolvePaths == {P_MSHR5_1, P_MSHR005_R01, P_MSHR123_4, P_notes}
SolveEntries == {Cand(p, c) : p \in SolvePaths, c \in 1..MaxTime}

\* a path has one creation time
OneTimePerPath(list) ==
    \A i, j \in DOMAIN list : list[i].path = list[j].path => list[i].ctime = list[j].ctime

SolveInputs ==
    UNION { {l \in [1..n -> SolveEntries] : OneTimePerPath(l)} : n \in 0..MaxCands }

ExtractCalls == { [fn |-> "extract_mshr_id", path |-> p] : p \in ExtractPaths }
SolveCalls ==
    { [fn |-> "solve_duplicates", file_paths |-> l, resolution_policy |-> r] :
        l \in SolveInputs, r \in {"newest", "oldest"} }
SearchCalls ==
    { [fn |-> "do_search", file |-> f, root |-> r, pattern |-> p,
       allow_list |-> a, deny_list |-> d] :
        f \in {None, IdsTxt, GoneTxt}, r \in {Dot, DataDir}, p \in {Star, PatFq},
        a \in {<<TermMshr>>, <<TermMshr, TermFq>>},
        d \in {<<TermMixed>>, <<>>, <<TermMixed, TermNotes>>} }

LibFileSystems == { (IdsTxt :> c) : c \in {Ids_5_123_8, Ids_123_124_125, Ids_9_x1} }

Idle ==
    /\ argv = <<Prog>> /\ links = {} /\ fsops = <<>> /\ stdout = <<>>
    /\ pc = "call" /\ exc = "none" /\ payload = "none"
    /\ root = NoneVal /\ pattern = NoneVal /\ target = NoneVal /\ file = NoneVal
    /\ dry_run = FALSE /\ caller = "none" /\ file_paths = <<>> /\ idx = 0

InitLib ==
    /\ Idle
    /\ ret = NoRet
    /\ \/ call \in ExtractCalls /\ tree = <<>> /\ files = <<>>
       \/ call \in SolveCalls /\ tree = <<>> /\ files = <<>>
       \/ call \in SearchCalls /\ tree \in Trees /\ files \in LibFileSystems

CallExtractMshrId ==
    /\ pc = "call" /\ call.fn = "extract_mshr_id"
    /\ ret' = [status |-> "ok", value |-> ExtractMshrId(call.path)]
    /\ pc' = "returned"
    /\ UNCHANGED <<argv, tree, files, links, fsops, stdout, exc, payload, root, pattern,
                   target, file, dry_run, caller, file_paths, idx, call>>

CallSolveDuplicates ==
    /\ pc = "call" /\ call.fn = "solve_duplicates"
    /\ ret' = [status |-> "ok",
               value |-> SolveDuplicates(call.file_paths, call.resolution_policy)]
    /\ pc' = "returned"
    /\ UNCHANGED <<argv, tree, files, links, fsops, stdout, exc, payload, root, pattern,
                   target, file, dry_run, caller, file_paths, idx, call>>

CallDoSearch ==
    /\ pc = "call" /\ call.fn = "do_search"
    /\ ret' = [status |-> DoSearch(tree, files, call.file, call.root, call.pattern,
                                   call.allow_list, call.deny_list).status,
               value |-> DoSearch(tree, files, call.file, call.root, call.pattern,
                                  call.allow_list, call.deny_list).results]
    /\ pc' = "returned"
    /\ UNCHANGED <<argv, tree, files, links, fsops, stdout, exc, payload, root, pattern,
                   target, file, dry_run, caller, file_paths, idx, call>>

NextLib ==
    \/ CallExtractMshrId
    \/ CallSolveDuplicates
    \/ CallDoSearch

SpecLib == InitLib /\ [][NextLib]_vars

Next ==
    \/ Main
    \/ Search
    \/ Link
    \/ DoSearchRglob
    \/ DoSearchFile
    \/ DoSearchFilter
    \/ PrintSearchOutput
    \/ LinkSolveDuplicates
    \/ LinkStep

Spec == Init /\ [][Next]_vars
(***************************************************************************)
(* Properties.                                                             *)
(***************************************************************************)
Returned(fn) == pc = "returned" /\ call.fn = fn
IdOf(e) == ExtractMshrId(e.path)
IdsOf(list) == [i \in DOMAIN list |-> IdOf(list[i])]

\* the position of the member that "newest" is to keep of the group at positions m:
\* of those with the greatest creation time, the first in input order
Winner(list, m) == Min({i \in m : \A j \in m : list[j].ctime <= list[i].ctime})

\* whether out holds exactly one candidate of every identifier of list, the winner
OnePerIdentifier(list, ids, out, outIds) ==
    \A id \in Range(ids) \ {None} :
        /\ Cardinality({k \in DOMAIN out : outIds[k] = id}) = 1
        /\ \A k \in DOMAIN out :
               outIds[k] = id =>
                   out[k] = list[Winner(list, {i \in DOMAIN list : ids[i] = id})]

\* C1: solve_duplicates with policy "newest" returns, for every identifier derived
\* from its input, exactly one candidate, and that one is the group's candidate of
\* the greatest creation time, the first such in input order (the candidate itself
\* when it is alone in its group).
C1_OnePerIdentifierNewest ==
    (Returned("solve_duplicates") /\ call.resolution_policy = "newest") =>
        OnePerIdentifier(call.file_paths, IdsOf(call.file_paths),
                         ret.value, IdsOf(ret.value))

\* two paths of one identifier tie for the greatest time, beside a candidate that is
\* alone in its group
C1_Witness ==
    /\ Returned("solve_duplicates") /\ call.resolution_policy = "newest"
    /\ Len(call.file_paths) = 3
    /\ call.file_paths[1] = Cand(P_MSHR5_1, 2)
    /\ call.file_paths[2] = Cand(P_MSHR123_4, 1)
    /\ call.file_paths[3] = Cand(P_MSHR005_R01, 2)
    /\ ret.value = <<Cand(P_MSHR5_1, 2), Cand(P_MSHR123_4, 1)>>

\* C2: solve_duplicates returns no candidate for which extract_mshr_id gives none.
C2_NoIdentifierDropped ==
    Returned("solve_duplicates") =>
        \A k \in DOMAIN ret.value : IdOf(ret.value[k]) # None

\* u occurs in t
Occurs(t, u) == \E i \in 0..(Len(t) - Len(u)) : SubSeq(t, i + 1, i + Len(u)) = u
HasTerm(e, terms) == \E k \in DOMAIN terms : Occurs(Lower(e.path), terms[k])

\* C8: a candidate is in do_search's result only if its lower-cased path holds an
\* allow-term, and never when it holds a deny-term, an allow-term beside it or not;
\* with the default lists a path holding both "mshr" and "mixed" is left out.
C8_DenyWins ==
    (Returned("do_search") /\ ret.status = "ok") =>
        /\ \A k \in DOMAIN ret.value :
              /\ HasTerm(ret.value[k], call.allow_list)
              /\ ~HasTerm(ret.value[k], call.deny_list)
        /\ (call.allow_list = DefaultAllow /\ call.deny_list = DefaultDeny) =>
              \A k \in DOMAIN ret.value : ret.value[k].path \notin {P_MIXED, P_readme}

\* the default lists, a tree holding a path with "mshr" and "mixed" beside one with
\* "mshr" alone: the second is the result
C8_Witness ==
    /\ Returned("do_search") /\ ret.status = "ok"
    /\ call.allow_list = DefaultAllow /\ call.deny_list = DefaultDeny
    /\ call.file = None /\ call.root = Dot /\ call.pattern = Star
    /\ Len(tree) = 2 /\ tree[1].path = P_MSHR5_1 /\ tree[2].path = P_MIXED
    /\ ret.value = <<tree[1]>>

\* the accession of a path: int() of the match's first group
HasId(e) == RegexSearch(e.path) # None
AccessionOf(e) == ParseInt(RegexSearch(e.path).g1)

\* the integers the file's content stands for
ContentSet(c) ==
    IF c = Ids_123_124_125 THEN {123, 124, 125}
    ELSE IF c = Ids_5_123_8 THEN {5, 123, 8}
    ELSE {}

\* what do_search is to keep of entry e when the identifier list is given
KeptWithFile(e) ==
    /\ UnderRoot(e.path, call.root)
    /\ GlobMatch(Name(e.path), call.pattern)
    /\ HasId(e)
    /\ AccessionOf(e) \in ContentSet(files[call.file])
    /\ HasTerm(e, call.allow_list)
    /\ ~HasTerm(e, call.deny_list)

\* C9: with an identifier-list file, do_search keeps only candidates whose extracted
\* accession is one of the file's integers ("123 124 125" stands for 123, 124, 125),
\* whatever their suffix, and drops every candidate without identifier; of the
\* entries found it keeps all those that also pass the allow/deny filter.
C9_AccessionInList ==
    (Returned("do_search") /\ call.file # None /\ ret.status = "ok") =>
        /\ \A k \in DOMAIN ret.value :
              /\ HasId(ret.value[k])
              /\ AccessionOf(ret.value[k]) \in ContentSet(files[call.file])
        /\ \A i \in DOMAIN tree :
              KeptWithFile(tree[i]) <=> (\E k \in DOMAIN ret.value : ret.value[k] = tree[i])

\* ids.txt holds "5 123\n8"; MSHR005_R01 (accession 005, suffix 1) is kept, the
\* entry without identifier is dropped though it passes the allow/deny filter
C9_Witness ==
    /\ Returned("do_search") /\ ret.status = "ok"
    /\ call.file = IdsTxt /\ files[IdsTxt] = Ids_5_123_8
    /\ call.allow_list = DefaultAllow /\ call.deny_list = DefaultDeny
    /\ call.root = Dot /\ call.pattern = Star
    /\ Len(tree) = 2 /\ tree[1].path = P_MSHR005_R01 /\ tree[2].path = P_notes
    /\ ret.value = <<tree[1]>>

\* t[a..b] is a run of digits that ends at b
DigitRun(t, a, b) ==
    /\ a <= b /\ b <= Len(t)
    /\ \A k \in a..b : t[k] \in DigitChars
    /\ b = Len(t) \/ t[b + 1] \notin DigitChars

\* s without its leading zeros, its last digit kept
StripZeros(s) ==
    SubSeq(s, Max({k \in 1..Len(s) : \A j \in 1..(k - 1) : s[j] = "0"}), Len(s))

\* t holds MSHR, the accession t[a..b], word or hyphen characters, an underscore, an
\* optional R and the number t[c..e]
Shape(t, a, b, c, e) ==
    /\ a > 4 /\ SubSeq(t, a - 4, a - 1) = MSHR
    /\ DigitRun(t, a, b)
    /\ \E l \in (b + 1)..Len(t) :
          /\ \A k \in (b + 1)..(l - 1) : t[k] \in WordHyphenClass
          /\ t[l] = "_"
          /\ c = l + 1 \/ (c = l + 2 /\ t[l + 1] = "R")
    /\ DigitRun(t, c, e)

HasShape(t) == \E a, b, c, e \in DOMAIN t : Shape(t, a, b, c, e)

\* C10: extract_mshr_id gives "<accession>-<suffix>", both numbers without their
\* leading zeros, for a path that holds MSHR, a number, optionally the characters
\* of MIXED and word or hyphen characters, an underscore, an optional R and a second
\* number, and none for any other path; "MSHR123_4" gives "123-4" and
\* "MSHR007MIXED-extra_R04" gives "7-4".
C10_ExtractShape ==
    Returned("extract_mshr_id") =>
        /\ ret.value # None <=> HasShape(call.path)
        /\ ret.value # None =>
              \E a, b, c, e \in DOMAIN call.path :
                  /\ Shape(call.path, a, b, c, e)
                  /\ ret.value = StripZeros(SubSeq(call.path, a, b)) \o <<"-">>
                                    \o StripZeros(SubSeq(call.path, c, e))
        /\ call.path = P_MSHR123_4 => ret.value = <<"1", "2", "3", "-", "4">>
        /\ call.path = P_MSHR007 => ret.value = <<"7", "-", "4">>
        /\ call.path = P_no_identifier => ret.value = None

C10_Witness ==
    /\ Returned("extract_mshr_id")
    /\ call.path = P_MSHR007
    /\ ret.value = <<"7", "-", "4">>

(***************************************************************************)
(* Properties of a run of the program, read off the command line.          *)
(***************************************************************************)
Terminal == pc \in {"done", "raised"}
Cmd == IF Len(argv) >= 2 THEN argv[2] ELSE None
Rest == SubSeq(argv, 3, Len(argv))
WellFormed == Len(Opts(Rest)) = Len(Args(Rest))
Given(names) == OptValue(Opts(Rest), Args(Rest), names)
GivenFile == Given({OptF, OptFile})
GivenTarget == Given({OptT, OptTarget})
GivenRoot == Given({OptR, OptRoot})
GivenPattern == Given({OptP, OptPattern})
OrText(v, default) == IF v = None THEN default ELSE v

ExitedWithUsage ==
    /\ pc = "raised" /\ exc = "SystemExit" /\ payload = "usage"
    /\ stdout # <<>> /\ stdout[Len(stdout)].kind = "message"

\* C3: when the identifier-list file given to do_search does not exist, the program
\* ends by the fatal exit and the tree was not traversed before it.
C3_MissingFileBeforeTraversal ==
    (Terminal /\ Cmd \in {TokSearch, TokLink, TokDryLink} /\ WellFormed
        /\ GivenFile = GoneTxt) =>
        /\ ExitedWithUsage
        /\ "rglob" \notin Range(fsops)

\* the link the claim expects for candidate e
ExpectedLink(e) ==
    [dest |-> Absolute(JoinPath(OrText(GivenTarget, Dot), Name(e.path))),
     src |-> Absolute(e.path)]

\* C4: link in real mode, its arguments accepted: root, pattern and target are ".",
\* "*" and "." when not given, and every candidate duplicate resolution returned has
\* its link target/<name> -> <absolute path> (a run that symlink_to itself ended,
\* by an occupied destination or a missing directory, is left aside).
C4_LinksCreated ==
    (Terminal /\ Cmd = TokLink /\ idx >= 1
        /\ exc \notin {"FileExistsError", "FileNotFoundError"}) =>
        /\ root.text = OrText(GivenRoot, Dot)
        /\ pattern.text = OrText(GivenPattern, Star)
        /\ target.text = OrText(GivenTarget, Dot)
        /\ \A k \in DOMAIN file_paths : ExpectedLink(file_paths[k]) \in links

\* C5: every fatal condition reached through main (no subcommand, an unknown one,
\* options and values of different number, a missing identifier-list file, link
\* without file and target) ends the program by SystemExit with the usage text,
\* a message printed.
FatalCondition ==
    \/ Len(argv) < 2
    \/ Cmd \notin {TokSearch, TokLink, TokDryLink}
    \/ ~WellFormed
    \/ GivenFile = GoneTxt
    \/ Cmd \in {TokLink, TokDryLink} /\ GivenFile = None /\ GivenTarget = None

C5_FatalExitsWithUsage == (Terminal /\ FatalCondition) => ExitedWithUsage

\* the lines dry-link printed
DryLines == SelectSeq(stdout, LAMBDA o : o.kind = "line")
LineOf(l) == l.dest \o Arrow \o l.src
\* what link in real mode does with the candidates of this run
RealRun == LinkAll({}, tree, target, file_paths, 1)
DryRunFrame == Cmd = TokDryLink => (links = {} /\ "symlink" \notin Range(fsops))
LoopEnded == Terminal /\ Cmd = TokDryLink /\ idx >= 1

LinkWithoutFileAndTarget ==
    /\ Cmd \in {TokLink, TokDryLink} /\ WellFormed
    /\ GivenFile = None /\ GivenTarget = None

====
